---- MODULE Spec2Model ----
(***************************************************************************)
(* Model of totalsegmentator/dicom_io.py: DICOM -> NIfTI conversion        *)
(* (dcm_to_nifti, dcm_to_nifti_LEGACY, download_dcm2niix), reorientation   *)
(* to LPS (_reorient_to_lps) and RT-Struct export (save_mask_as_rtstruct). *)
(*                                                                         *)
(* Four specifications share the module, one per entry point:              *)
(*   SpecOrient  _reorient_to_lps and the nibabel orientation calls        *)
(*   SpecExport  save_mask_as_rtstruct                                     *)
(*   SpecIngest  dcm_to_nifti                                              *)
(*   SpecLegacy  dcm_to_nifti_LEGACY with download_dcm2niix                *)
(* Axis numbers and voxel indices are 0-based as in numpy; positions in a  *)
(* TLA+ tuple are 1-based, so axis a is position a+1.                      *)
(***************************************************************************)
EXTENDS Integers, Sequences, FiniteSets, TLC

\* Largest extent of an array along one axis.
MaxDim == 2
\* Largest number of voxels of a segmentation volume given to the export.
MaxVoxels == 4

None == "None"
NaN == "nan"

VARIABLES
    \* --- _reorient_to_lps / orientation ---
    o_pc,       \* position: "start", "lps", "fwd", "back", "raised"
    o_img,      \* the image: [shape, data, affine]
    o_arr,      \* the array produced so far
    o_cur,      \* axis codes the array o_arr is in
    \* --- save_mask_as_rtstruct ---
    e_pc,       \* position in save_mask_as_rtstruct
    e_seg,      \* segmentation_img: [nifti, shape, data, affine]
    e_classes,  \* selected_classes.items(): sequence of <<class_idx, class_name>>
    e_vol,      \* slices_first
    e_i,        \* number of class-map items already iterated
    e_rois,     \* rtstruct: the ROIs added, in order
    e_calls,    \* calls made on RTStructBuilder / rtstruct, in order
    e_file,     \* content of output_path (None: no file)
    e_err,      \* the exception that left the function (None: none)
    \* --- dcm_to_nifti ---
    i_pc, i_in, i_fs, i_fs0, i_conv, i_out, i_err,
    \* --- dcm_to_nifti_LEGACY ---
    l_pc, l_env, l_cfg, l_cfg0, l_exec, l_dir, l_dir0, l_json, l_ev, l_err

orientVars == <<o_pc, o_img, o_arr, o_cur>>
exportVars == <<e_pc, e_seg, e_classes, e_vol, e_i, e_rois, e_calls, e_file, e_err>>
ingestVars == <<i_pc, i_in, i_fs, i_fs0, i_conv, i_out, i_err>>
legacyVars == <<l_pc, l_env, l_cfg, l_cfg0, l_exec, l_dir, l_dir0, l_json, l_ev, l_err>>
vars == <<orientVars, exportVars, ingestVars, legacyVars>>

-----------------------------------------------------------------------------
(* numpy arrays: [shape |-> <<n0, n1, ...>>, data |-> [index tuple -> value]] *)

Indices(shape) ==
    {idx \in [1..Len(shape) -> 0..(MaxDim - 1)] :
        \A d \in 1..Len(shape) : idx[d] < shape[d]}

Size(shape) == Cardinality(Indices(shape))

\* The function f over the set S, written out pair by pair (the same function
\* as [x \in S |-> f[x]], held as a table rather than as a rule).
RECURSIVE Table(_, _)
Table(f, S) ==
    IF S = {} THEN <<>>
    ELSE LET x == CHOOSE y \in S : TRUE
         IN (x :> f[x]) @@ Table(f, S \ {x})

\* An array of the given shape whose voxel idx is val[idx].
MkArray(shape, val) ==
    LET sh == Table(shape, DOMAIN shape)
    IN [shape |-> sh, data |-> Table(val, Indices(sh))]

\* numpy.flip(arr, axis=ax)
np_flip(arr, ax) ==
    MkArray(arr.shape,
            [idx \in Indices(arr.shape) |->
                arr.data[[idx EXCEPT ![ax + 1] = arr.shape[ax + 1] - 1 - @]]])

\* numpy.transpose(arr, axes): axis j of the result is axis axes[j] of arr.
np_transpose(arr, axes) ==
    LET n == Len(axes)
        newShape == [j \in 1..n |-> arr.shape[axes[j] + 1]]
        posOf(a) == CHOOSE j \in 1..n : axes[j] = a
    IN MkArray(newShape,
               [idx \in Indices(newShape) |->
                   arr.data[[p \in 1..n |-> idx[posOf(p - 1)]]]])

\* numpy.argsort of a tuple of distinct numbers (0-based result).
argsort(s) ==
    [j \in 1..Len(s) |->
        (CHOOSE p \in 1..Len(s) :
            Cardinality({q \in 1..Len(s) : s[q] < s[p]}) = j - 1) - 1]

Abs(x) == IF x < 0 THEN -x ELSE x

-----------------------------------------------------------------------------
(* nibabel.orientations, as called by _reorient_to_lps.                      *)
(* An orientation (ornt) is a tuple of <<output axis, flip>>, one per input  *)
(* axis.  An affine is given by its 3x3 part RZS, rows = output axes.        *)

\* Default labels of axcodes2ornt: (('L','R'), ('P','A'), ('I','S')).
Labels == <<<<"L", "R">>, <<"P", "A">>, <<"I", "S">>>>

\* nibabel axcodes2ornt(axcodes)
axcodes2ornt(axcodes) ==
    [c \in 1..Len(axcodes) |->
        LET l == CHOOSE k \in 1..Len(Labels) :
                     axcodes[c] = Labels[k][1] \/ axcodes[c] = Labels[k][2]
        IN IF axcodes[c] = Labels[l][1] THEN <<l - 1, -1>> ELSE <<l - 1, 1>>]

\* nibabel ornt2axcodes(ornt)
ornt2axcodes(ornt) ==
    [c \in 1..Len(ornt) |->
        IF ornt[c][2] = 1 THEN Labels[ornt[c][1] + 1][2]
                          ELSE Labels[ornt[c][1] + 1][1]]

\* Column norms of RZS (one nonzero entry per column: the norm is its size).
Zooms(RZS) ==
    [c \in 1..3 |->
        LET z == Abs(RZS[1][c]) + Abs(RZS[2][c]) + Abs(RZS[3][c])
        IN IF z = 0 THEN 1 ELSE z]

\* The loop of io_orientation over the input axes: the output axis of each is
\* the row of largest magnitude among the rows not yet taken.
RECURSIVE io_orientation_loop(_, _, _, _)
io_orientation_loop(R, in_ax, taken, ornt) ==
    IF in_ax = 3 THEN ornt
    ELSE LET col == [r \in 1..3 |-> IF (r - 1) \in taken THEN 0 ELSE R[r][in_ax + 1]]
         IN IF \A r \in 1..3 : col[r] = 0
            THEN io_orientation_loop(R, in_ax + 1, taken, Append(ornt, <<NaN, NaN>>))
            ELSE LET out_ax == (CHOOSE r \in 1..3 :
                                   /\ \A q \in 1..3 : Abs(col[q]) <= Abs(col[r])
                                   /\ \A q \in 1..(r - 1) : Abs(col[q]) < Abs(col[r])) - 1
                     flip == IF col[out_ax + 1] < 0 THEN -1 ELSE 1
                 IN io_orientation_loop(R, in_ax + 1, taken \cup {out_ax},
                                        Append(ornt, <<out_ax, flip>>))

\* nibabel io_orientation(affine)
io_orientation(RZS) ==
    LET zooms == Zooms(RZS)
        RS == [r \in 1..3 |-> [c \in 1..3 |-> RZS[r][c] \div zooms[c]]]
    IN io_orientation_loop(RS, 0, {}, <<>>)

FlipMutant(start_flip, end_flip) == 1
FlipFromStartMutant(start_flip, end_flip) == start_flip

\* ornt_transform: "if start_flip == end_flip: flip = 1 else: flip = -1"
TransformFlip(start_flip, end_flip) == IF start_flip = end_flip THEN 1 ELSE -1

\* nibabel ornt_transform(start_ornt, end_ornt)
ornt_transform(start_ornt, end_ornt) ==
    [s \in 1..Len(start_ornt) |->
        LET e == CHOOSE k \in 1..Len(end_ornt) : end_ornt[k][1] = start_ornt[s][1]
        IN <<e - 1, TransformFlip(start_ornt[s][2], end_ornt[e][2])>>]

RECURSIVE apply_flips(_, _, _)
apply_flips(arr, ornt, ax) ==
    IF ax = Len(ornt) THEN arr
    ELSE apply_flips(IF ornt[ax + 1][2] = -1 THEN np_flip(arr, ax) ELSE arr,
                     ornt, ax + 1)

\* nibabel apply_orientation(arr, ornt): flip, then undo the transpose.
apply_orientation(arr, ornt) ==
    np_transpose(apply_flips(arr, ornt, 0),
                 argsort([a \in 1..Len(ornt) |-> ornt[a][1]]))

\* Lines 158 and 162 of _reorient_to_lps with the target orientation a parameter.
align(arr, current_ornt, target_ornt) ==
    apply_orientation(arr, ornt_transform(current_ornt, target_ornt))

LPS == <<"L", "P", "S">>

\* An exception leaving a function, in place of its result.
Raised(what) == [raised |-> what]
IsRaised(r) == "raised" \in DOMAIN r

\* _reorient_to_lps(segmentation_img): the array, or the ValueError raised.
reorient_to_lps(img) ==
    IF Len(img.shape) # 3 THEN Raised("ValueError")
    ELSE align([shape |-> img.shape, data |-> img.data],
               io_orientation(img.affine), axcodes2ornt(LPS))

\* nibabel aff2axcodes(affine)
aff2axcodes(RZS) == ornt2axcodes(io_orientation(RZS))

-----------------------------------------------------------------------------
(* Inputs of the orientation specification.                                  *)

Perms3 == {p \in [1..3 -> 0..2] : \A a, b \in 1..3 : p[a] = p[b] => a = b}
Signs3 == [1..3 -> {-1, 1}]
\* Voxel sizes along the three array axes.
VoxelSizes == {<<1, 1, 1>>, <<1, 2, 3>>}

\* The axis-aligned affine sending array axis c to world axis perm[c] with
\* direction sgn[c] and voxel size zoom[c].
AxisAffine(perm, sgn, zoom) ==
    [r \in 1..3 |-> [c \in 1..3 |-> IF perm[c] = r - 1 THEN sgn[c] * zoom[c] ELSE 0]]

Affines == {AxisAffine(p, s, z) : p \in Perms3, s \in Signs3, z \in VoxelSizes}
AxCodes == {aff2axcodes(a) : a \in Affines}

Shapes3 == [1..3 -> 1..MaxDim]
\* Shapes of another rank, which _reorient_to_lps rejects.
ShapesNot3 == {<<1, 2>>, <<2, 1, 1, 2>>}

RECURSIVE Linear(_, _, _)
Linear(shape, idx, d) ==
    IF d = 0 THEN 0 ELSE idx[d] + shape[d] * Linear(shape, idx, d - 1)

\* Every voxel labelled by its own position.
UniquePattern(shape) == [idx \in Indices(shape) |-> 1 + Linear(shape, idx, Len(shape))]
\* Two labels only, so that distinct voxels share a value.
StripePattern(shape) == [idx \in Indices(shape) |-> Linear(shape, idx, Len(shape)) % 2]

OrientImages ==
    {[shape |-> s, data |-> d, affine |-> a] :
        s \in Shapes3 \cup ShapesNot3,
        d \in {"unique", "stripe"},
        a \in Affines}

ImageOf(im) ==
    [shape |-> im.shape, affine |-> im.affine,
     data |-> IF im.data = "unique" THEN UniquePattern(im.shape)
                                    ELSE StripePattern(im.shape)]

ArrayOf(img) == [shape |-> img.shape, data |-> img.data]

-----------------------------------------------------------------------------
(* Idle values of the variables a specification does not use.                *)

OrientIdle ==
    /\ o_pc = "idle" /\ o_img = None /\ o_arr = None /\ o_cur = <<>>
ExportIdle ==
    /\ e_pc = "idle" /\ e_seg = None /\ e_classes = <<>> /\ e_vol = None
    /\ e_i = 0 /\ e_rois = <<>> /\ e_calls = <<>> /\ e_file = None /\ e_err = None
IngestIdle ==
    /\ i_pc = "idle" /\ i_in = None /\ i_fs = {} /\ i_fs0 = {} /\ i_conv = <<>>
    /\ i_out = <<>> /\ i_err = None
LegacyIdle ==
    /\ l_pc = "idle" /\ l_env = None /\ l_cfg = {} /\ l_cfg0 = {} /\ l_exec = {}
    /\ l_dir = <<>> /\ l_dir0 = <<>> /\ l_json = FALSE /\ l_ev = <<>> /\ l_err = None

-----------------------------------------------------------------------------
(* SpecOrient: _reorient_to_lps, and align there and back.                   *)

InitOrient ==
    /\ \E im \in OrientImages : o_img = ImageOf(im)
    /\ o_pc = "start"
    /\ o_arr = None
    /\ o_cur = <<aff2axcodes(o_img.affine)>>
    /\ ExportIdle /\ IngestIdle /\ LegacyIdle

\* _reorient_to_lps(segmentation_img), lines 153-163.
ReorientToLps ==
    /\ o_pc = "start"
    /\ IF IsRaised(reorient_to_lps(o_img))
       THEN /\ o_pc' = "raised"
            /\ UNCHANGED <<o_arr, o_cur>>
       ELSE /\ o_pc' = "lps"
            /\ o_arr' = reorient_to_lps(o_img)
            /\ o_cur' = Append(o_cur, LPS)
    /\ UNCHANGED <<o_img, exportVars, ingestVars, legacyVars>>

\* align(x, A, B): from the image's own axis codes A to the codes B.
AlignTo(B) ==
    /\ o_pc = "start"
    /\ Len(o_img.shape) = 3
    /\ o_arr' = align(ArrayOf(o_img), axcodes2ornt(o_cur[1]), axcodes2ornt(B))
    /\ o_cur' = Append(o_cur, B)
    /\ o_pc' = "fwd"
    /\ UNCHANGED <<o_img, exportVars, ingestVars, legacyVars>>

\* align(., B, A): back from B to the image's own axis codes A.
AlignBack ==
    /\ o_pc = "fwd"
    /\ o_arr' = align(o_arr, axcodes2ornt(o_cur[2]), axcodes2ornt(o_cur[1]))
    /\ o_cur' = Append(o_cur, o_cur[1])
    /\ o_pc' = "back"
    /\ UNCHANGED <<o_img, exportVars, ingestVars, legacyVars>>

NextOrient ==
    \/ ReorientToLps
    \/ \E B \in AxCodes : AlignTo(B)
    \/ AlignBack

SpecOrient == InitOrient /\ [][NextOrient]_vars

RAS == <<"R", "A", "S">>

\* C7: for an image whose affine implies the axis codes (R, A, S),
\* _reorient_to_lps keeps the shape and voxel (i, j, k) of the input is voxel
\* (shape0-1-i, shape1-1-j, k) of the result.
C7_RasToLpsFlipsFirstTwoAxes ==
    (o_pc = "lps" /\ o_cur[1] = RAS) =>
        /\ o_arr.shape = o_img.shape
        /\ \A idx \in Indices(o_img.shape) :
              o_arr.data[<<o_img.shape[1] - 1 - idx[1],
                           o_img.shape[2] - 1 - idx[2], idx[3]>>] = o_img.data[idx]

\* A RAS image with extent 2 along both flipped axes has been reoriented, and
\* its voxel (0,0,0) is found at (shape0-1, shape1-1, 0), not at (0,0,0).
C7_Witness ==
    /\ o_pc = "lps" /\ o_cur[1] = RAS
    /\ o_img.shape = <<2, 2, 1>>
    /\ o_arr.data[<<1, 1, 0>>] = o_img.data[<<0, 0, 0>>]
    /\ o_arr.data[<<0, 0, 0>>] # o_img.data[<<0, 0, 0>>]

\* C8: align(align(x, A, B), B, A) is x, voxel for voxel and with the same
\* shape, for every pair of orientation codes A, B.
C8_AlignRoundTrip ==
    o_pc = "back" => o_arr = ArrayOf(o_img)

\* A round trip through codes B that permute and flip the axes of a
\* non-cubic array whose voxels all differ.
C8_Witness ==
    /\ o_pc = "back"
    /\ o_img.shape = <<1, 2, 2>>
    /\ o_img.data[<<0, 0, 0>>] # o_img.data[<<0, 1, 1>>]
    /\ o_cur[1] = <<"R", "A", "S">> /\ o_cur[2] = <<"P", "I", "L">>
    /\ o_arr = ArrayOf(o_img)

-----------------------------------------------------------------------------
(* SpecExport: save_mask_as_rtstruct.                                        *)

\* Label values of a segmentation volume, and indices a class map may hold.
VoxelLabels == {0, 1, 2}
ClassIndices == {0, 1, 2}
ClassName(k) == <<"background", "organA", "organB">>[k + 1]

\* selected_classes.items(): a dict holds each key once, in insertion order.
ClassMaps ==
    {m \in UNION {[1..n -> ClassIndices] : n \in 0..Cardinality(ClassIndices)} :
        \A a, b \in 1..Len(m) : m[a] = m[b] => a = b}
ItemsOf(m) == [n \in 1..Len(m) |-> <<m[n], ClassName(m[n])>>]

ExportShapes == {s \in Shapes3 : Size(s) <= MaxVoxels}
ExportAffines ==
    {AxisAffine(<<0, 1, 2>>, <<1, 1, 1>>, <<1, 1, 1>>),
     AxisAffine(<<0, 1, 2>>, <<-1, -1, 1>>, <<1, 2, 3>>),
     AxisAffine(<<1, 2, 0>>, <<-1, 1, -1>>, <<1, 2, 3>>)}

\* The segmentation images: 3D label volumes, volumes of another rank, and an
\* object that is no Nifti1Image.
Segmentations ==
    UNION {{[nifti |-> TRUE, shape |-> s, data |-> d, affine |-> a] :
               d \in [Indices(s) -> VoxelLabels], a \in ExportAffines} :
           s \in ExportShapes}

SegmentationInputs ==
    Segmentations
    \cup {[nifti |-> TRUE, shape |-> s, data |-> StripePattern(s), affine |-> a] :
            s \in ShapesNot3, a \in ExportAffines}
    \cup {[nifti |-> FALSE, shape |-> <<1, 1, 1>>, data |-> StripePattern(<<1, 1, 1>>),
           affine |-> AxisAffine(<<0, 1, 2>>, <<1, 1, 1>>, <<1, 1, 1>>)]}

MaskGeMutant(vol, class_idx) ==
    [shape |-> vol.shape, data |-> [idx \in Indices(vol.shape) |-> vol.data[idx] >= class_idx]]

\* mask = slices_first == class_idx
MaskOf(vol, class_idx) ==
    [shape |-> vol.shape, data |-> [idx \in Indices(vol.shape) |-> vol.data[idx] = class_idx]]

AnyMutant(mask) == TRUE

\* np.any(mask)
np_any(mask) == \E idx \in Indices(mask.shape) : mask.data[idx]

\* np.ascontiguousarray(mask.astype(np.uint8))
AsUint8(mask) ==
    [shape |-> mask.shape,
     data |-> [idx \in Indices(mask.shape) |-> IF mask.data[idx] THEN 1 ELSE 0]]

RoiErrorCaughtMutant == "loop"

\* Where control goes when rtstruct.add_roi raises: no try/except encloses the
\* call, so the exception leaves save_mask_as_rtstruct.
RoiErrorTarget == "raised"

InitExport ==
    /\ e_seg \in SegmentationInputs
    /\ \E m \in ClassMaps : e_classes = ItemsOf(m)
    /\ e_pc = "start"
    /\ e_vol = None /\ e_i = 0 /\ e_rois = <<>> /\ e_calls = <<>>
    /\ e_file = None /\ e_err = None
    /\ OrientIdle /\ IngestIdle /\ LegacyIdle

exportOthers == <<orientVars, ingestVars, legacyVars>>

\* Lines 169-170: isinstance(segmentation_img, nib.Nifti1Image).
CheckType ==
    /\ e_pc = "start"
    /\ IF e_seg.nifti
       THEN e_pc' = "align" /\ e_err' = e_err
       ELSE e_pc' = "raised" /\ e_err' = "TypeError"
    /\ UNCHANGED <<e_seg, e_classes, e_vol, e_i, e_rois, e_calls, e_file, exportOthers>>

\* Lines 178-179: _reorient_to_lps, then np.transpose(lps_volume, (2, 1, 0)):
\* the (Slices, Rows, Columns) array, or the ValueError raised.
slices_first(segmentation_img) ==
    LET lps_volume == reorient_to_lps(segmentation_img)
    IN IF IsRaised(lps_volume) THEN lps_volume
       ELSE np_transpose(lps_volume, <<2, 1, 0>>)

AlignVolume ==
    /\ e_pc = "align"
    /\ IF IsRaised(slices_first(e_seg))
       THEN e_pc' = "raised" /\ e_err' = "ValueError" /\ e_vol' = e_vol
       ELSE e_pc' = "create" /\ e_err' = e_err /\ e_vol' = slices_first(e_seg)
    /\ UNCHANGED <<e_seg, e_classes, e_i, e_rois, e_calls, e_file, exportOthers>>

\* Line 181: RTStructBuilder.create_new: an empty document.
CreateNew ==
    /\ e_pc = "create"
    /\ e_rois' = <<>>
    /\ e_calls' = Append(e_calls, <<"create_new">>)
    /\ e_pc' = "loop"
    /\ UNCHANGED <<e_seg, e_classes, e_vol, e_i, e_file, e_err, exportOthers>>

\* Line 181 when the reference series cannot be read: create_new raises.
CreateNewFails ==
    /\ e_pc = "create"
    /\ e_calls' = Append(e_calls, <<"create_new_raised">>)
    /\ e_pc' = "raised" /\ e_err' = "SeriesError"
    /\ UNCHANGED <<e_seg, e_classes, e_vol, e_i, e_rois, e_file, exportOthers>>

\* Lines 183-186: an item whose mask is empty is skipped.
SkipClass ==
    /\ e_pc = "loop" /\ e_i < Len(e_classes)
    /\ ~np_any(MaskOf(e_vol, e_classes[e_i + 1][1]))
    /\ e_i' = e_i + 1
    /\ UNCHANGED <<e_pc, e_seg, e_classes, e_vol, e_rois, e_calls, e_file, e_err, exportOthers>>

\* Lines 183-191: an item with voxels gets one ROI named class_name.
AddRoi ==
    /\ e_pc = "loop" /\ e_i < Len(e_classes)
    /\ LET class_idx == e_classes[e_i + 1][1]
           class_name == e_classes[e_i + 1][2]
           mask == MaskOf(e_vol, class_idx)
       IN /\ np_any(mask)
          /\ e_rois' = Append(e_rois, [name |-> class_name, mask |-> AsUint8(mask)])
          /\ e_calls' = Append(e_calls, <<"add_roi", class_idx, class_name>>)
    /\ e_i' = e_i + 1
    /\ UNCHANGED <<e_pc, e_seg, e_classes, e_vol, e_file, e_err, exportOthers>>

\* Lines 188-191 when contour construction fails: add_roi raises.
AddRoiFails ==
    /\ e_pc = "loop" /\ e_i < Len(e_classes)
    /\ LET class_idx == e_classes[e_i + 1][1]
           class_name == e_classes[e_i + 1][2]
       IN /\ np_any(MaskOf(e_vol, class_idx))
          /\ e_calls' = Append(e_calls, <<"add_roi_raised", class_idx, class_name>>)
    /\ e_i' = e_i + 1
    /\ e_err' = "RoiError"
    /\ e_pc' = RoiErrorTarget
    /\ UNCHANGED <<e_seg, e_classes, e_vol, e_rois, e_file, exportOthers>>

\* Line 193: rtstruct.save(str(output_path)), after the loop.
Save ==
    /\ e_pc = "loop" /\ e_i = Len(e_classes)
    /\ e_file' = e_rois
    /\ e_calls' = Append(e_calls, <<"save">>)
    /\ e_pc' = "done"
    /\ UNCHANGED <<e_seg, e_classes, e_vol, e_i, e_rois, e_err, exportOthers>>

NextExport ==
    \/ CheckType
    \/ AlignVolume
    \/ CreateNew
    \/ CreateNewFails
    \/ SkipClass
    \/ AddRoi
    \/ AddRoiFails
    \/ Save

SpecExport == InitExport /\ [][NextExport]_vars

\* The input volume has a voxel of class k.
HasVoxel(k) == \E idx \in Indices(e_seg.shape) : e_seg.data[idx] = k
AddRoiCalls == SelectSeq(e_calls, LAMBDA c : c[1] = "add_roi")

IsAddRoi(c) == c[1] = "add_roi" \/ c[1] = "add_roi_raised"
\* The class-map items that have at least one voxel, in iteration order.
NonEmptyItems == SelectSeq(e_classes, LAMBDA it : HasVoxel(it[1]))

\* C1 (as claimed): no add_roi call is ever made for class index 0, and no ROI
\* carries the name the class map gives to index 0.
C1_NoRoiForIndexZero ==
    /\ \A n \in 1..Len(e_calls) : IsAddRoi(e_calls[n]) => e_calls[n][2] # 0
    /\ \A n \in 1..Len(e_rois) : e_rois[n].name # ClassName(0)

\* C2: add_roi is called only for a class that has a voxel in the volume; a
\* class of the map without any voxel has no ROI in the document or the file.
C2_EmptyClassSkipped ==
    /\ \A n \in 1..Len(e_calls) : IsAddRoi(e_calls[n]) => HasVoxel(e_calls[n][2])
    /\ \A n \in 1..Len(e_classes) :
          ~HasVoxel(e_classes[n][1]) =>
              /\ \A r \in 1..Len(e_rois) : e_rois[r].name # e_classes[n][2]
              /\ e_file # None =>
                    \A r \in 1..Len(e_file) : e_file[r].name # e_classes[n][2]

\* A four-voxel volume with two voxels of value 1 and none of value 2,
\* exported with {1: organA, 2: organB}: the file holds the one ROI organA.
C2_Witness ==
    /\ e_pc = "done"
    /\ e_classes = <<<<1, "organA">>, <<2, "organB">>>>
    /\ Size(e_seg.shape) = 4
    /\ Cardinality({idx \in Indices(e_seg.shape) : e_seg.data[idx] = 1}) = 2
    /\ ~HasVoxel(2)
    /\ Len(e_file) = 1 /\ e_file[1].name = "organA"

\* C5: a completed run has made exactly the calls create_new, then add_roi
\* once per class-map item with a voxel, in the map's order, then save; the
\* saved document holds those ROIs in that order.  In every state the
\* document holds one ROI per add_roi made, nothing follows a save, and the
\* file exists only once the run is done.
C5_ExportOrdering ==
    /\ e_pc = "done" =>
          /\ e_calls = <<<<"create_new">>>>
                        \o [n \in 1..Len(NonEmptyItems) |->
                               <<"add_roi", NonEmptyItems[n][1], NonEmptyItems[n][2]>>]
                        \o <<<<"save">>>>
          /\ e_file = [n \in 1..Len(NonEmptyItems) |->
                          [name |-> NonEmptyItems[n][2],
                           mask |-> AsUint8(MaskOf(e_vol, NonEmptyItems[n][1]))]]
    /\ Len(e_rois) = Len(AddRoiCalls)
    /\ \A n \in 1..Len(e_calls) : e_calls[n][1] = "save" => n = Len(e_calls)
    /\ e_file # None => e_pc = "done"

\* A completed run over three classes of which one was skipped.
C5_Witness ==
    /\ e_pc = "done"
    /\ Len(e_classes) = 3
    /\ ~HasVoxel(e_classes[2][1])
    /\ Len(e_file) = 2
    /\ e_calls[Len(e_calls)] = <<"save">>

\* C6: once add_roi has raised, the exception has left the function, the
\* raising call is the last call made (no later class is processed, nothing
\* is saved) and output_path holds no file.
C6_RoiFailureAborts ==
    e_err = "RoiError" =>
        /\ e_pc = "raised"
        /\ e_file = None
        /\ e_calls[Len(e_calls)][1] = "add_roi_raised"
        /\ \A n \in 1..Len(e_calls) : e_calls[n][1] # "save"

\* add_roi raised on the second of three classes, after one ROI was added and
\* with a class that has voxels still to come.
C6_Witness ==
    /\ e_err = "RoiError" /\ e_pc = "raised"
    /\ Len(e_classes) = 3 /\ e_i = 2 /\ Len(e_rois) = 1
    /\ HasVoxel(e_classes[3][1])
    /\ e_file = None

-----------------------------------------------------------------------------
(* SpecIngest: dcm_to_nifti.                                                 *)

\* os.path.splitext(input_path)[0]
SplitExt(path) ==
    [path EXCEPT ![Len(path)] =
        CASE @ = "series.zip" -> "series"
          [] OTHER -> @]

\* zipfile.is_zipfile(input_path): decided by the content, not by the name.
is_zipfile(input) == input.kind = "zip"

TmpDirCheckDroppedMutant(tmp_dir) == FALSE

\* Line 141: "if tmp_dir is None"
TmpDirMissing(tmp_dir) == tmp_dir = None

\* Line 144: extract_dir
ExtractDir(input_path, tmp_dir) ==
    IF tmp_dir = None THEN SplitExt(input_path) ELSE <<tmp_dir, "extracted_dcm">>

ZipMembers == {"a.dcm", "b.dcm", "c.dcm"}

IngestInputs ==
    [kind : {"dir", "zip", "file"},
     path : {<<"data", "series.zip">>, <<"data", "series">>},
     members : SUBSET ZipMembers,
     tmp_dir : {None, "tmp", "scratch"},
     output_path : {<<"out", "ct.nii.gz">>},
     verbose : BOOLEAN]

InitIngest ==
    /\ i_in \in IngestInputs
    /\ \E stale \in SUBSET {<<"tmp", "extracted_dcm">>, <<"out", "ct.nii.gz">>} :
          i_fs0 = {i_in.path} \cup stale
    /\ i_fs = i_fs0
    /\ i_pc = "start" /\ i_conv = <<>> /\ i_out = <<>> /\ i_err = None
    /\ OrientIdle /\ ExportIdle /\ LegacyIdle

ingestOthers == <<orientVars, exportVars, legacyVars>>

\* Lines 140-143: the zip test, the tmp_dir check and the verbose message.
CheckZip ==
    /\ i_pc = "start"
    /\ IF is_zipfile(i_in)
       THEN IF TmpDirMissing(i_in.tmp_dir)
            THEN i_pc' = "raised" /\ i_err' = "ValueError" /\ i_out' = i_out
            ELSE /\ i_pc' = "extract" /\ i_err' = i_err
                 /\ i_out' = IF i_in.verbose
                             THEN Append(i_out, <<"Extracting zip file", i_in.path>>)
                             ELSE i_out
       ELSE i_pc' = "convert" /\ i_err' = i_err /\ i_out' = i_out
    /\ UNCHANGED <<i_in, i_fs, i_fs0, i_conv, ingestOthers>>

\* Lines 144-147: extractall into extract_dir, which becomes the input path.
Extract ==
    /\ i_pc = "extract"
    /\ LET extract_dir == ExtractDir(i_in.path, i_in.tmp_dir)
       IN /\ i_fs' = i_fs \cup {extract_dir}
                         \cup {Append(extract_dir, m) : m \in i_in.members}
          /\ i_in' = [i_in EXCEPT !.path = extract_dir]
    /\ i_pc' = "convert"
    /\ UNCHANGED <<i_fs0, i_conv, i_out, i_err, ingestOthers>>

\* Line 146 failing part way (a damaged member, a full disk): extractall
\* raises after writing some of the members.
ExtractFails ==
    /\ i_pc = "extract"
    /\ LET extract_dir == ExtractDir(i_in.path, i_in.tmp_dir)
       IN \E done \in SUBSET i_in.members :
             /\ done # i_in.members
             /\ i_fs' = i_fs \cup {extract_dir} \cup {Append(extract_dir, m) : m \in done}
    /\ i_pc' = "raised" /\ i_err' = "ExtractError"
    /\ UNCHANGED <<i_in, i_fs0, i_conv, i_out, ingestOthers>>

\* Line 150: dicom2nifti.dicom_series_to_nifti writes output_path.
Convert ==
    /\ i_pc = "convert"
    /\ i_conv' = Append(i_conv, [input |-> i_in.path, output |-> i_in.output_path,
                                 reorient_nifti |-> TRUE])
    /\ i_fs' = i_fs \cup {i_in.output_path}
    /\ i_pc' = "done"
    /\ UNCHANGED <<i_in, i_fs0, i_out, i_err, ingestOthers>>

\* Line 150 when the series cannot be converted: dicom2nifti raises.
ConvertFails ==
    /\ i_pc = "convert"
    /\ i_conv' = Append(i_conv, [input |-> i_in.path, output |-> i_in.output_path,
                                 reorient_nifti |-> TRUE])
    /\ i_pc' = "raised" /\ i_err' = "ConversionError"
    /\ UNCHANGED <<i_in, i_fs, i_fs0, i_out, ingestOthers>>

NextIngest ==
    \/ CheckZip
    \/ Extract
    \/ ExtractFails
    \/ Convert
    \/ ConvertFails

SpecIngest == InitIngest /\ [][NextIngest]_vars

\* C3: with a zip archive as input and tmp_dir = None, dcm_to_nifti goes from
\* its start to the ValueError and nowhere else: the file system is as it
\* was, nothing was printed and the converter was never invoked.
C3_ZipWithoutTmpDirRaisesFirst ==
    (i_in.kind = "zip" /\ i_in.tmp_dir = None /\ i_pc # "start") =>
        /\ i_pc = "raised" /\ i_err = "ValueError"
        /\ i_fs = i_fs0
        /\ i_conv = <<>>
        /\ i_out = <<>>

\* A zip archive with members, no tmp_dir: the ValueError was raised.
C3_Witness ==
    /\ i_pc = "raised" /\ i_err = "ValueError"
    /\ i_in.kind = "zip" /\ i_in.tmp_dir = None
    /\ i_in.members = ZipMembers
    /\ i_fs = i_fs0

-----------------------------------------------------------------------------
(* SpecLegacy: dcm_to_nifti_LEGACY and download_dcm2niix.                    *)
(* A .nii.gz file of the output directory is named by the letters before     *)
(* ".nii.gz"; the directory is the tuple of its .nii.gz files in the order   *)
(* glob lists them, which is taken to be the same at both globs.             *)

ROI == <<"R", "O", "I">>

\* "ROI" in nii_file.name
Contains(name, part) ==
    \E i \in 1..(Len(name) - Len(part) + 1) : SubSeq(name, i, i + Len(part) - 1) = part

Range(seq) == {seq[n] : n \in 1..Len(seq)}

\* All orderings of all subsets of S.
Arrangements(S) ==
    {a \in UNION {[1..n -> S] : n \in 0..Cardinality(S)} :
        \A i, j \in 1..Len(a) : a[i] = a[j] => i = j}

\* output_path.name[:-7] is the stem handed to dcm2niix, which names its files
\* by the stem and a suffix of its own; "a" is a file that was there before.
OutStems == {<<"c", "t">>, <<"R", "O", "I">>}
DirNames(stem) == {stem, stem \o <<"e">>, stem \o ROI, <<"a">>}

Systems == {"Windows", "Darwin", "Linux", "FreeBSD"}
Machines == {"arm64", "x86_64"}

UrlOfAnySystemMutant(system, machine) ==
    IF system = "Windows" THEN "dcm2niix_win.zip" ELSE "dcm2niix_lnx.zip"

\* download_dcm2niix, lines 44-60: the release archive of the platform, or the
\* ValueError for an unknown operating system.
DownloadUrl(system, machine) ==
    CASE system = "Windows" -> "dcm2niix_win.zip"
      [] system = "Darwin" ->
            IF machine \in {"arm64", "aarch64"} THEN "dcm2niix_macos.zip"
                                                ELSE "dcm2niix_macos.zip"
      [] system = "Linux" -> "dcm2niix_lnx.zip"
      [] OTHER -> "ValueError"

\* Lines 95-98 and 69-72: the name of the private copy.
BinaryName(system) == IF system = "Windows" THEN "dcm2niix.exe" ELSE "dcm2niix"

\* What a release archive unpacks to: the binary, with or without dcm2niibatch.
ArchiveMembers(url) ==
    {{b} \cup extra :
        b \in {IF url = "dcm2niix_win.zip" THEN "dcm2niix.exe" ELSE "dcm2niix"},
        extra \in SUBSET {"dcm2niibatch"}}

InitLegacy ==
    /\ l_env \in [system : Systems, machine : Machines, on_path : BOOLEAN,
                  stem : OutStems, verbose : BOOLEAN]
    /\ l_cfg0 \in SUBSET {"dcm2niix", "dcm2niix.exe"}
    /\ l_cfg = l_cfg0
    /\ l_exec = l_cfg0
    /\ l_pc = "resolve"
    /\ l_dir = <<>> /\ l_dir0 = <<>> /\ l_json = FALSE
    /\ l_ev = <<>> /\ l_err = None
    /\ OrientIdle /\ ExportIdle /\ IngestIdle

legacyOthers == <<orientVars, exportVars, ingestVars>>

\* Lines 92-100: dcm2niix of the execution path, else the private copy, else
\* download_dcm2niix().
Resolve ==
    /\ l_pc = "resolve"
    /\ IF l_env.on_path
       THEN l_pc' = "invoke" /\ l_ev' = l_ev
       ELSE IF BinaryName(l_env.system) \in l_cfg
            THEN l_pc' = "invoke" /\ l_ev' = l_ev
            ELSE l_pc' = "download" /\ l_ev' = Append(l_ev, <<"download_dcm2niix">>)
    /\ UNCHANGED <<l_env, l_cfg, l_cfg0, l_exec, l_dir, l_dir0, l_json, l_err, legacyOthers>>

\* download_dcm2niix, lines 44-60.
SelectUrl ==
    /\ l_pc = "download"
    /\ IF DownloadUrl(l_env.system, l_env.machine) = "ValueError"
       THEN l_pc' = "raised" /\ l_err' = "UnknownOS"
       ELSE l_pc' = "fetch" /\ l_err' = l_err
    /\ UNCHANGED <<l_env, l_cfg, l_cfg0, l_exec, l_dir, l_dir0, l_json, l_ev, legacyOthers>>

\* Line 64: urlretrieve writes config_dir/dcm2niix.zip.
Fetch ==
    /\ l_pc = "fetch"
    /\ l_cfg' = l_cfg \cup {"dcm2niix.zip"}
    /\ l_ev' = Append(l_ev, <<"urlretrieve", DownloadUrl(l_env.system, l_env.machine)>>)
    /\ l_pc' = "unpack"
    /\ UNCHANGED <<l_env, l_cfg0, l_exec, l_dir, l_dir0, l_json, l_err, legacyOthers>>

\* Line 64 when the network fails: urlretrieve raises, with or without a
\* partial dcm2niix.zip left behind.
FetchFails ==
    /\ l_pc = "fetch"
    /\ \E partial \in SUBSET {"dcm2niix.zip"} : l_cfg' = l_cfg \cup partial
    /\ l_ev' = Append(l_ev, <<"urlretrieve_raised", DownloadUrl(l_env.system, l_env.machine)>>)
    /\ l_pc' = "raised" /\ l_err' = "URLError"
    /\ UNCHANGED <<l_env, l_cfg0, l_exec, l_dir, l_dir0, l_json, legacyOthers>>

\* Lines 65-66: extractall into config_dir.
Unpack ==
    /\ l_pc = "unpack"
    /\ \E members \in ArchiveMembers(DownloadUrl(l_env.system, l_env.machine)) :
          /\ l_cfg' = l_cfg \cup members
          /\ l_exec' = l_exec \ members
    /\ l_ev' = Append(l_ev, <<"extractall">>)
    /\ l_pc' = "chmod"
    /\ UNCHANGED <<l_env, l_cfg0, l_dir, l_dir0, l_json, l_err, legacyOthers>>

\* Lines 69-72: os.chmod(binary, 0o755).
Chmod ==
    /\ l_pc = "chmod"
    /\ IF BinaryName(l_env.system) \in l_cfg
       THEN /\ l_exec' = l_exec \cup {BinaryName(l_env.system)}
            /\ l_ev' = Append(l_ev, <<"chmod", BinaryName(l_env.system)>>)
            /\ l_pc' = "cleanup" /\ l_err' = l_err
       ELSE /\ l_pc' = "raised" /\ l_err' = "FileNotFoundError"
            /\ UNCHANGED <<l_exec, l_ev>>
    /\ UNCHANGED <<l_env, l_cfg, l_cfg0, l_dir, l_dir0, l_json, legacyOthers>>

\* Lines 75-78: the archive and dcm2niibatch are removed if they exist.
CleanUp ==
    /\ l_pc = "cleanup"
    /\ l_cfg' = l_cfg \ {"dcm2niix.zip", "dcm2niibatch"}
    /\ l_ev' = Append(l_ev, <<"cleanup">>)
    /\ l_pc' = "invoke"
    /\ UNCHANGED <<l_env, l_cfg0, l_exec, l_dir, l_dir0, l_json, l_err, legacyOthers>>

\* Line 102: subprocess.call of dcm2niix (its exit status is not looked at).
\* Afterwards the output directory holds some of the names, in some listing
\* order, and the sidecar <stem>.json or not.
Invoke ==
    /\ l_pc = "invoke"
    /\ l_dir' \in Arrangements(DirNames(l_env.stem))
    /\ l_dir0' = l_dir'
    /\ l_json' \in BOOLEAN
    /\ l_ev' = Append(l_ev, <<"invoke",
                              IF l_env.on_path THEN "dcm2niix" ELSE BinaryName(l_env.system),
                              IF l_env.verbose THEN "" ELSE "> /dev/null">>)
    /\ l_pc' = "check"
    /\ UNCHANGED <<l_env, l_cfg, l_cfg0, l_exec, l_err, legacyOthers>>

\* Lines 104-107: output_path must exist.
CheckOutput ==
    /\ l_pc = "check"
    /\ IF l_env.stem \in Range(l_dir)
       THEN l_pc' = "roi" /\ l_err' = l_err
       ELSE l_pc' = "raised" /\ l_err' = "ValueError"
    /\ UNCHANGED <<l_env, l_cfg, l_cfg0, l_exec, l_dir, l_dir0, l_json, l_ev, legacyOthers>>

\* Lines 109-117: with several .nii.gz files, those with ROI in the name go.
RemoveRoi ==
    /\ l_pc = "roi"
    /\ l_dir' = IF Len(l_dir) > 1
                THEN SelectSeq(l_dir, LAMBDA f : ~Contains(f, ROI))
                ELSE l_dir
    /\ l_pc' = "first"
    /\ UNCHANGED <<l_env, l_cfg, l_cfg0, l_exec, l_dir0, l_json, l_ev, l_err, legacyOthers>>

\* Lines 119-125: with several .nii.gz files left, all but the first go.
KeepFirst ==
    /\ l_pc = "first"
    /\ l_dir' = IF Len(l_dir) > 1 THEN SubSeq(l_dir, 1, 1) ELSE l_dir
    /\ l_pc' = "json"
    /\ UNCHANGED <<l_env, l_cfg, l_cfg0, l_exec, l_dir0, l_json, l_ev, l_err, legacyOthers>>

\* Line 128: os.remove of the sidecar <stem>.json.
RemoveJson ==
    /\ l_pc = "json"
    /\ IF l_json
       THEN l_json' = FALSE /\ l_pc' = "done" /\ l_err' = l_err
       ELSE l_json' = l_json /\ l_pc' = "raised" /\ l_err' = "FileNotFoundError"
    /\ UNCHANGED <<l_env, l_cfg, l_cfg0, l_exec, l_dir, l_dir0, l_ev, legacyOthers>>

NextLegacy ==
    \/ Resolve
    \/ SelectUrl
    \/ Fetch
    \/ FetchFails
    \/ Unpack
    \/ Chmod
    \/ CleanUp
    \/ Invoke
    \/ CheckOutput
    \/ RemoveRoi
    \/ KeepFirst
    \/ RemoveJson

SpecLegacy == InitLegacy /\ [][NextLegacy]_vars

KnownSystem == l_env.system \in {"Windows", "Darwin", "Linux"}
\* Neither on the execution path nor cached under the platform's name.
NeedsDownload == ~l_env.on_path /\ BinaryName(l_env.system) \notin l_cfg0
HasEvent(kinds) == \E n \in 1..Len(l_ev) : l_ev[n][1] \in kinds
EventKinds == [n \in 1..Len(l_ev) |-> l_ev[n][1]]

\* C9: download_dcm2niix is called if and only if dcm2niix is neither on the
\* execution path nor cached in the configuration directory, and the archive
\* is fetched only then.  When the binary is invoked after a download, the
\* download ran to its end first (fetch, unpack, chmod, clean-up, in that
\* order): the binary is there and executable and the archive is gone.  On
\* an operating system other than Windows, Darwin and Linux the download
\* raises with nothing fetched, nothing written and nothing invoked.
C9_BinaryResolutionOrder ==
    /\ l_pc # "resolve" => (HasEvent({"download_dcm2niix"}) <=> NeedsDownload)
    /\ HasEvent({"urlretrieve", "urlretrieve_raised"}) => (NeedsDownload /\ KnownSystem)
    /\ (HasEvent({"invoke"}) /\ HasEvent({"download_dcm2niix"})) =>
          /\ EventKinds = <<"download_dcm2niix", "urlretrieve", "extractall",
                            "chmod", "cleanup", "invoke">>
          /\ BinaryName(l_env.system) \in l_cfg
          /\ BinaryName(l_env.system) \in l_exec
          /\ "dcm2niix.zip" \notin l_cfg
    /\ (HasEvent({"invoke"}) /\ ~HasEvent({"download_dcm2niix"})) =>
          (EventKinds = <<"invoke">> /\ l_cfg = l_cfg0)
    /\ (NeedsDownload /\ ~KnownSystem /\ l_pc \notin {"resolve", "download"}) =>
          /\ l_pc = "raised" /\ l_err = "UnknownOS"
          /\ l_cfg = l_cfg0 /\ l_exec = l_cfg0
          /\ EventKinds = <<"download_dcm2niix">>

\* On Windows with only a Linux copy cached, the binary was downloaded,
\* unpacked, made executable and then invoked.
C9_Witness ==
    /\ l_env.system = "Windows" /\ ~l_env.on_path /\ l_cfg0 = {"dcm2niix"}
    /\ HasEvent({"invoke"})
    /\ l_ev[1][1] = "download_dcm2niix"
    /\ "dcm2niix.exe" \in l_exec /\ "dcm2niix.zip" \notin l_cfg

\* The disambiguation of lines 109-125 is over.
Disambiguated == l_pc \in {"json", "done"} \/ (l_pc = "raised" /\ l_err = "FileNotFoundError")
NonRoi(dir) == SelectSeq(dir, LAMBDA f : ~Contains(f, ROI))

\* C4 (as claimed): whenever the output directory held more than one .nii.gz
\* file after conversion, exactly one is left after disambiguation, and it
\* is the first file without ROI in its name, by listing order.
C4_FirstNonRoiRemains ==
    (Disambiguated /\ Len(l_dir0) > 1) =>
        /\ Len(l_dir) = 1
        /\ NonRoi(l_dir0) # <<>>
        /\ l_dir[1] = NonRoi(l_dir0)[1]

\* C10 (as claimed): whenever dcm_to_nifti_LEGACY returns without raising,
\* the file at output_path still exists.
C10_OutputFileSurvives ==
    l_pc = "done" => l_env.stem \in Range(l_dir)

====
